---- MODULE Spec2Model ----
(***************************************************************************)
(* Event-segment reconstruction and time attribution of the reading-study *)
(* analysis scripts.                                                       *)
(*                                                                         *)
(*   Variant A (anchored):   scripts/verify_tab_times.py, main             *)
(*   Variant B (unanchored): scripts/analyze_llm_usage.py,                 *)
(*                           calculate_tab_times_from_events and its caller*)
(*                                                                         *)
(* CSV fields are strings.  A timestamp or duration field is one of the    *)
(* raw strings below; safe_float turns it into a number or None.           *)
(***************************************************************************)
EXTENDS Integers, Sequences, FiniteSets, TLC

\* ------------------------------------------------------------------ bounds
MaxEvents == 3
MaxTs == 2
MaxDur == 3
MaxParticipants == 2
MaxSegments == 3
MaxPoint == 4
MaxRows == 4
MaxMediaEvents == 3
MaxExperiments == 3
MaxSkewTs == 4

\* --------------------------------------------------------------- the state
VARIABLES
    events,         \* the participant's rows of reading_events.csv, file order
    duration,       \* the raw duration field of the participant's summary row
    pc,             \* "loaded", then "verified" (A) or "calculated" (B)
    skipped,        \* TRUE when the participant had no usable timestamp
    anchor,         \* first/last event timestamp, session start and end
    scan,           \* the states of the switch-event loop, in order
    scanned,        \* the switch events in the order the loop visited them
    segments,       \* the reconstructed segments
    tab_times       \* activity -> total duration

\* The run of verify_tab_times.main over all participants.
VARIABLES
    merged_all,             \* participant -> condition (merged_all.csv)
    reading_summary,        \* participant -> its summary rows (none or one)
    events_by_pid,          \* participant -> its event rows, file order
    main_pc,                \* "verify", "sample", "done" or "raised"
    idx,                    \* position of the running loop in llm_pids
    total_checked,
    overlap_count,
    gap_count,
    duration_match_count,
    duration_mismatch_details,
    sample_count,
    checks                  \* has_overlap and gaps of the participant verified last

\* The report of analyze_reading_patterns.main (reading ratio, section
\* means) and the time allocation of analyze_llm_usage.main.
VARIABLES
    summary_rows,           \* rows of reading_summary.csv with their condition
    section_class_times,    \* condition -> time summed over its events
    media_means,            \* mean time per medium of with_llm_extended
    reading_ratios,         \* [all, by_condition]: the ratios collected
    section_class_means,    \* condition -> mean time, once computed
    time_allocation,        \* medium -> share of the total, once computed
    report_pc               \* position of the report, or the exception raised

\* What the verification loop computed for each participant, get_media_times
\* of analyze_llm_usage.main, and filter_experiments of preprocess_data.
VARIABLES
    results,                \* participant -> the segments and totals computed
    focus_rows,             \* two merged_all rows that differ in focusTime only
    media_times,            \* get_media_times of each of the two rows
    data,                   \* the raw experiments, file order
    filtered,               \* the experiments filter_experiments returns
    filter_report           \* its report

locals == <<events, duration, pc, skipped, anchor, scan, scanned, segments, tab_times>>
inputs == <<merged_all, reading_summary, events_by_pid>>
counters == <<total_checked, overlap_count, gap_count, duration_match_count,
              duration_mismatch_details>>
report == <<summary_rows, section_class_times, media_means, reading_ratios, section_class_means,
            time_allocation, report_pc>>
media == <<focus_rows, media_times>>
filtering == <<data, filtered, filter_report>>
vars == <<locals, inputs, counters, main_pc, idx, sample_count, checks, report,
          results, media, filtering>>

\* None of them is in use.
NoExtras ==
    /\ results = <<>>
    /\ focus_rows = <<>>
    /\ media_times = <<>>
    /\ data = <<>>
    /\ filtered = <<>>
    /\ filter_report = <<>>

\* ------------------------------------------------------------ raw CSV data
\* Numbers a raw numeric field of the model can spell.
Numerals == 0..(MaxTs + MaxDur + 1) \cup {100, 101, 200, 300, 1000}

\* The timestamp column: empty, or the decimal spelling of 0..MaxTs.
RawTimestamps == {""} \cup {ToString(n) : n \in 0..MaxTs}

\* The duration column of reading_summary.csv: empty, or 1..MaxDur.
RawDurations == {""} \cup {ToString(n) : n \in 1..MaxDur}

\* Rows of reading_events.csv for one participant (the columns the
\* reconstruction reads).  Passive events carry no `to`.
EventRows ==
    [timestamp : RawTimestamps, eventType : {"focus_switch"},
     to : {"", "chat", "phase_complete"}]
    \cup [timestamp : RawTimestamps, eventType : {"resource_tab_switch"},
          to : {"video"}]
    \cup [timestamp : RawTimestamps, eventType : {"scroll_action"}, to : {""}]

RECURSIVE SeqsUpTo(_, _)
SeqsUpTo(S, n) ==
    IF n = 0 THEN {<<>>}
    ELSE LET shorter == SeqsUpTo(S, n - 1)
         IN  shorter \cup {Append(s, x) : s \in {t \in shorter : Len(t) = n - 1}, x \in S}

\* ------------------------------------------------------------- safe_float
None == [isNone |-> TRUE, v |-> 0]
Float(n) == [isNone |-> FALSE, v |-> n]

\* The decimal strings of the model and the number each one spells.
NumeralOf ==
    [s \in {ToString(n) : n \in Numerals} |->
        CHOOSE n \in Numerals : ToString(n) = s]

\* The None object, as a cell that csv.DictReader left unfilled; it is not
\* the string 'None'.
PyNone == "<None>"

\* float(value): the number a decimal string spells; for any other text
\* it raises ValueError and for the None object TypeError, and no value
\* is returned.
float(value) ==
    IF value \in DOMAIN NumeralOf
    THEN [raised |-> FALSE, isNone |-> FALSE, v |-> NumeralOf[value]]
    ELSE [raised |-> TRUE, isNone |-> FALSE, v |-> 0]

\* safe_float without the try: what float raises reaches the caller.
safe_float_NoExcept(value) ==
    IF value = PyNone \/ value = "" \/ value = "None" THEN None ELSE float(value)

\* The three spellings of nothing give None; so does anything float
\* raises on (except (ValueError, TypeError): return None).
safe_float(value) ==
    IF value = PyNone \/ value = "" \/ value = "None" THEN None
    ELSE IF float(value).raised THEN None
    ELSE Float(float(value).v)

\* Python truthiness of a safe_float result: None and 0.0 are falsy.
Truthy(x) == ~x.isNone /\ x.v # 0

\* `safe_float(x) or 0`
OrZero(x) == IF Truthy(x) THEN x.v ELSE 0

\* ------------------------------------------------------------------- sort
SortKey(e) == OrZero(safe_float(e.timestamp))

\* A sort that is not stable: e goes before the elements with an equal key.
InsertPos_Unstable(s, e) == Cardinality({i \in DOMAIN s : SortKey(s[i]) < SortKey(e)})

\* Position at which list.sort places e in the sorted list s: after every
\* element whose key is not larger (the sort is stable).
InsertPos(s, e) == Cardinality({i \in DOMAIN s : SortKey(s[i]) <= SortKey(e)})

InsertByKey(s, e) ==
    LET n == InsertPos(s, e)
    IN  SubSeq(s, 1, n) \o <<e>> \o SubSeq(s, n + 1, Len(s))

\* A sort that writes its key back into the timestamp of each row.
SortByTimestamp_KeyWritten(s) ==
    [i \in DOMAIN s |-> [s[i] EXCEPT !.timestamp = ToString(SortKey(s[i]))]]

\* No sort at all: the rows stay in file order.
SortByTimestamp_FileOrder(s) == s

RECURSIVE SortByTimestamp(_)
SortByTimestamp(s) ==
    IF s = <<>> THEN <<>>
    ELSE InsertByKey(SortByTimestamp(SubSeq(s, 1, Len(s) - 1)), s[Len(s)])

\* ------------------------------------------------------ shared selections
IsSwitch(e) == e.eventType \in {"focus_switch", "resource_tab_switch"}

switch_events(evs) == SelectSeq(evs, IsSwitch)

\* [safe_float(e['timestamp']) for e in events if safe_float(e['timestamp'])]
all_timestamps(evs) ==
    {safe_float(evs[i].timestamp).v :
        i \in {j \in DOMAIN evs : Truthy(safe_float(evs[j].timestamp))}}

Min(S) == CHOOSE x \in S : \A y \in S : x <= y
Max(S) == CHOOSE x \in S : \A y \in S : x >= y

Segment(start, end, tab) ==
    [start |-> start, end |-> end, tab |-> tab, duration |-> end - start]

\* ------------------------------------------------- Variant A: the scan
\* The step without the sentinel test: "phase_complete" becomes the tab.
ScanStepA_NoSentinelTest(st, se) ==
    LET ts == safe_float(se.timestamp)
        new_tab == se.to
    IN  IF ts.isNone THEN st
        ELSE [segments |->
                  IF ts.v > st.segment_start
                  THEN Append(st.segments,
                              Segment(st.segment_start, ts.v, st.current_tab))
                  ELSE st.segments,
              current_tab |-> IF new_tab # "" THEN new_tab ELSE st.current_tab,
              segment_start |-> ts.v]

\* The step without the emptiness test: an empty `to` becomes the tab.
ScanStepA_NoEmptyTest(st, se) ==
    LET ts == safe_float(se.timestamp)
        new_tab == se.to
    IN  IF ts.isNone THEN st
        ELSE [segments |->
                  IF ts.v > st.segment_start
                  THEN Append(st.segments,
                              Segment(st.segment_start, ts.v, st.current_tab))
                  ELSE st.segments,
              current_tab |->
                  IF new_tab # "phase_complete" THEN new_tab ELSE st.current_tab,
              segment_start |-> ts.v]

\* The step that takes the new tab only when it has closed a segment: of
\* several events at one timestamp the first label wins.
ScanStepA_TabWithSegment(st, se) ==
    LET ts == safe_float(se.timestamp)
        new_tab == se.to
    IN  IF ts.isNone THEN st
        ELSE [segments |->
                  IF ts.v > st.segment_start
                  THEN Append(st.segments,
                              Segment(st.segment_start, ts.v, st.current_tab))
                  ELSE st.segments,
              current_tab |->
                  IF ts.v > st.segment_start /\ new_tab # ""
                     /\ new_tab # "phase_complete"
                  THEN new_tab ELSE st.current_tab,
              segment_start |-> ts.v]

\* The step with a clamp: segment_start never moves back.
ScanStepA_Clamped(st, se) ==
    LET ts == safe_float(se.timestamp)
        new_tab == se.to
    IN  IF ts.isNone THEN st
        ELSE [segments |->
                  IF ts.v > st.segment_start
                  THEN Append(st.segments,
                              Segment(st.segment_start, ts.v, st.current_tab))
                  ELSE st.segments,
              current_tab |->
                  IF new_tab # "" /\ new_tab # "phase_complete"
                  THEN new_tab ELSE st.current_tab,
              segment_start |-> IF ts.v > st.segment_start THEN ts.v
                                ELSE st.segment_start]

\* The step without the test `ts > segment_start`: every switch with a
\* timestamp closes a segment, empty or reversed ones included.
ScanStepA_NoGuard(st, se) ==
    LET ts == safe_float(se.timestamp)
        new_tab == se.to
    IN  IF ts.isNone THEN st
        ELSE [segments |->
                  Append(st.segments, Segment(st.segment_start, ts.v, st.current_tab)),
              current_tab |->
                  IF new_tab # "" /\ new_tab # "phase_complete"
                  THEN new_tab ELSE st.current_tab,
              segment_start |-> ts.v]

\* One pass of the loop body over a switch event.
ScanStepA(st, se) ==
    LET ts == safe_float(se.timestamp)
        new_tab == se.to
    IN  IF ts.isNone THEN st
        ELSE [segments |->
                  IF ts.v > st.segment_start
                  THEN Append(st.segments,
                              Segment(st.segment_start, ts.v, st.current_tab))
                  ELSE st.segments,
              current_tab |->
                  IF new_tab # "" /\ new_tab # "phase_complete"
                  THEN new_tab ELSE st.current_tab,
              segment_start |-> ts.v]

\* The states of the loop: before the first event and after each event.
RECURSIVE ScanTraceA(_, _)
ScanTraceA(st, evs) ==
    IF evs = <<>> THEN <<st>>
    ELSE <<st>> \o ScanTraceA(ScanStepA(st, Head(evs)), Tail(evs))

\* The final step with >= for >: an empty final segment is appended.
FinalSegments_Inclusive(st, session_end) ==
    IF session_end >= st.segment_start
    THEN Append(st.segments, Segment(st.segment_start, session_end, st.current_tab))
    ELSE st.segments

\* The final segment, from the last switch to the session end.
FinalSegments(st, session_end) ==
    IF session_end > st.segment_start
    THEN Append(st.segments, Segment(st.segment_start, session_end, st.current_tab))
    ELSE st.segments

\* ------------------------------------------------- Variant B: the scan
ScanStepB(st, se) ==
    LET ts == safe_float(se.timestamp)
        new_tab == se.to
    IN  IF ts.isNone THEN st
        ELSE [segments |->
                  IF ts.v > st.segment_start
                  THEN Append(st.segments,
                              Segment(st.segment_start, ts.v, st.current_tab))
                  ELSE st.segments,
              current_tab |-> IF new_tab # "" THEN new_tab ELSE st.current_tab,
              segment_start |-> ts.v]

RECURSIVE ScanTraceB(_, _)
ScanTraceB(st, evs) ==
    IF evs = <<>> THEN <<st>>
    ELSE <<st>> \o ScanTraceB(ScanStepB(st, Head(evs)), Tail(evs))

\* ------------------------------------------------------------ aggregation
RECURSIVE SumDurations(_)
SumDurations(segs) ==
    IF segs = <<>> THEN 0 ELSE Head(segs).duration + SumDurations(Tail(segs))

\* The loop body with = for +=: the last segment of a tab overwrites the total.
AddSegment_Overwrite(times, seg) ==
    [t \in DOMAIN times \cup {seg.tab} |->
        IF t = seg.tab THEN seg.duration ELSE times[t]]

\* tab_times[seg['tab']] += seg['duration'] on a defaultdict(float): a tab
\* seen for the first time starts from 0.
AddSegment(times, seg) ==
    [t \in DOMAIN times \cup {seg.tab} |->
        (IF t \in DOMAIN times THEN times[t] ELSE 0)
            + (IF t = seg.tab THEN seg.duration ELSE 0)]

RECURSIVE AddSegments(_, _)
AddSegments(times, segs) ==
    IF segs = <<>> THEN times
    ELSE AddSegments(AddSegment(times, Head(segs)), Tail(segs))

\* tab_times = defaultdict(float); for seg in segments: ... ; dict(tab_times)
TabTimes(segs) == AddSegments(<<>>, segs)

\* tab_times.get(tab, 0)
Total(times, tab) == IF tab \in DOMAIN times THEN times[tab] ELSE 0

\* ----------------------------------------------------- the verifier checks
\* The test with >= for >: segments that only touch count as overlapping.
Intersects_Closed(seg1, seg2) ==
    seg1.end >= seg2.start /\ seg2.end >= seg1.start

\* seg1['end'] > seg2['start'] and seg2['end'] > seg1['start']
Intersects(seg1, seg2) ==
    seg1.end > seg2.start /\ seg2.end > seg1.start

\* The inner loop `for seg2 in segments[i+1:]`, from position j on: it
\* breaks at the first hit.
RECURSIVE InnerHit(_, _, _)
InnerHit(segs, i, j) ==
    IF j > Len(segs) THEN FALSE
    ELSE IF Intersects(segs[i], segs[j]) THEN TRUE
    ELSE InnerHit(segs, i, j + 1)

\* The outer loop `for i, seg1 in enumerate(segments)`, from position i
\* on: it breaks as soon as the inner loop has set the flag.
RECURSIVE OuterHit(_, _)
OuterHit(segs, i) ==
    IF i > Len(segs) THEN FALSE
    ELSE IF InnerHit(segs, i, i + 1) THEN TRUE
    ELSE OuterHit(segs, i + 1)

\* Verification 1: the flag after the two loops.
has_overlap(segs) == OuterHit(segs, 1)

Abs(x) == IF x < 0 THEN -x ELSE x

\* The test without abs(): only a positive difference is a gap.
IsGap_Signed(gap) == gap > 1

\* abs(gap) > 1, the 1 ms tolerance.
IsGap(gap) == Abs(gap) > 1

\* Verification 2: the adjacent pairs further apart than the 1 ms tolerance.
RECURSIVE GapsFrom(_, _)
GapsFrom(segs, i) ==
    IF i >= Len(segs) THEN <<>>
    ELSE LET gap == segs[i + 1].start - segs[i].end
         IN  (IF IsGap(gap)
              THEN <<[after_segment |-> i - 1, gap_ms |-> gap]>>
              ELSE <<>>) \o GapsFrom(segs, i + 1)

gaps(segs) == GapsFrom(segs, 1)

\* Verification 3: the segment total against the recorded duration.
DurationTolerance == 100

duration_matches(segs, dur) ==
    Abs(SumDurations(segs) - dur) < DurationTolerance

\* ------------------------------------------------------- reconstruction
NoAnchor == [first |-> 0, last |-> 0, session_start |-> 0, session_end |-> 0]

\* What the locals hold when the participant has no usable timestamp.
NoResult == [skipped |-> TRUE, anchor |-> NoAnchor, scan |-> <<>>,
             scanned |-> <<>>, segments |-> <<>>, tab_times |-> <<>>]

\* The locals left as the previous participant's pass ended, with only
\* segment_start set anew.
InitialScan_CarryOver(start) ==
    [segments |-> segments,
     current_tab |-> IF scan = <<>> THEN "reading" ELSE scan[Len(scan)].current_tab,
     segment_start |-> start]

\* segments = [], current_tab = 'reading', segment_start = session_start:
\* assigned anew in every pass of the participant loop.
InitialScan(start) ==
    [segments |-> <<>>, current_tab |-> "reading", segment_start |-> start]

\* The window anchored at the first event instead: it starts there and
\* lasts for the recorded duration.
ReconstructA_FromFirstEvent(evs, dur) ==
    LET sorted_events == SortByTimestamp(evs)
        stamps == all_timestamps(sorted_events)
    IN  IF stamps = {} THEN NoResult
        ELSE LET first_event_timestamp == Min(stamps)
                 last_event_timestamp == Max(stamps)
                 event_span == last_event_timestamp - first_event_timestamp
                 time_before_first_event == dur - event_span
                 session_start == first_event_timestamp
                 session_end == session_start + dur
                 visited == SortByTimestamp(switch_events(sorted_events))
                 trace == ScanTraceA(InitialScan(session_start), visited)
                 segs == FinalSegments(trace[Len(trace)], session_end)
             IN  [skipped |-> FALSE,
                  anchor |-> [first |-> first_event_timestamp,
                              last |-> last_event_timestamp,
                              session_start |-> session_start,
                              session_end |-> session_end],
                  scan |-> trace, scanned |-> visited, segments |-> segs,
                  tab_times |-> TabTimes(segs)]

\* Variant A, verify_tab_times.main: the participant's events (sorted in
\* place after grouping) and the recorded duration give the anchored window
\* and the segments.
ReconstructA(evs, dur) ==
    LET sorted_events == SortByTimestamp(evs)
        stamps == all_timestamps(sorted_events)
    IN  IF stamps = {} THEN NoResult
        ELSE LET first_event_timestamp == Min(stamps)
                 last_event_timestamp == Max(stamps)
                 event_span == last_event_timestamp - first_event_timestamp
                 time_before_first_event == dur - event_span
                 session_start == first_event_timestamp - time_before_first_event
                 session_end == session_start + dur
                 visited == SortByTimestamp(switch_events(sorted_events))
                 trace == ScanTraceA(InitialScan(session_start), visited)
                 segs == FinalSegments(trace[Len(trace)], session_end)
             IN  [skipped |-> FALSE,
                  anchor |-> [first |-> first_event_timestamp,
                              last |-> last_event_timestamp,
                              session_start |-> session_start,
                              session_end |-> session_end],
                  scan |-> trace, scanned |-> visited, segments |-> segs,
                  tab_times |-> TabTimes(segs)]

\* Variant B, calculate_tab_times_from_events: the switch events are
\* visited in the order of the list it is given.
calculate_tab_times_from_events(evs) ==
    LET stamps == all_timestamps(evs)
    IN  IF stamps = {} THEN NoResult
        ELSE LET first_timestamp == Min(stamps)
                 last_timestamp == Max(stamps)
                 visited == switch_events(evs)
                 trace == ScanTraceB(InitialScan(first_timestamp), visited)
                 segs == FinalSegments(trace[Len(trace)], last_timestamp)
             IN  [skipped |-> FALSE,
                  anchor |-> [first |-> first_timestamp,
                              last |-> last_timestamp,
                              session_start |-> first_timestamp,
                              session_end |-> last_timestamp],
                  scan |-> trace, scanned |-> visited, segments |-> segs,
                  tab_times |-> TabTimes(segs)]

\* analyze_llm_usage.main sorts each participant's events by timestamp
\* before get_media_times hands them to calculate_tab_times_from_events.
ReconstructB(evs) == calculate_tab_times_from_events(SortByTimestamp(evs))

\* summary_data[pid]['duration'] = safe_float(row.get('duration')) or 0
firebase_duration(raw) == OrZero(safe_float(raw))

Store(r) ==
    /\ skipped' = r.skipped
    /\ anchor' = r.anchor
    /\ scan' = r.scan
    /\ scanned' = r.scanned
    /\ segments' = r.segments
    /\ tab_times' = r.tab_times

\* The locals of the checks before any participant has been verified.
NoChecks == [has_overlap |-> FALSE, gaps |-> <<>>]

\* Verifications 1 to 3 of the loop body for one participant's segments:
\* the overlap flag, the gap records, and the counters they feed.
Verifications(segs, dur, pid, condition) ==
    /\ checks' = [has_overlap |-> has_overlap(segs), gaps |-> gaps(segs)]
    /\ overlap_count' = IF has_overlap(segs) THEN overlap_count + 1 ELSE overlap_count
    /\ gap_count' = IF gaps(segs) # <<>> THEN gap_count + 1 ELSE gap_count
    /\ IF duration_matches(segs, dur)
       THEN /\ duration_match_count' = duration_match_count + 1
            /\ UNCHANGED duration_mismatch_details
       ELSE /\ duration_mismatch_details' =
                 Append(duration_mismatch_details,
                        [pid |-> pid,
                         condition |-> condition,
                         firebase_duration |-> dur,
                         segment_total |-> SumDurations(segs),
                         diff |-> SumDurations(segs) - dur])
            /\ UNCHANGED duration_match_count

\* No report is being written.
NoReport ==
    /\ summary_rows = <<>>
    /\ section_class_times = <<>>
    /\ media_means = <<>>
    /\ reading_ratios = <<>>
    /\ section_class_means = <<>>
    /\ time_allocation = <<>>
    /\ report_pc = "idle"

\* ------------------------------------------- one participant, both variants
NoRun ==
    /\ merged_all = <<>>
    /\ reading_summary = <<>>
    /\ events_by_pid = <<>>
    /\ main_pc = "idle"
    /\ idx = 0
    /\ total_checked = 0
    /\ overlap_count = 0
    /\ gap_count = 0
    /\ duration_match_count = 0
    /\ duration_mismatch_details = <<>>
    /\ sample_count = 0
    /\ checks = NoChecks
    /\ NoReport

Init ==
    /\ NoExtras
    /\ events \in SeqsUpTo(EventRows, MaxEvents)
    /\ duration \in RawDurations
    /\ pc = "loaded"
    /\ skipped = FALSE
    /\ anchor = NoAnchor
    /\ scan = <<>>
    /\ scanned = <<>>
    /\ segments = <<>>
    /\ tab_times = <<>>
    /\ NoRun

\* verify_tab_times.main, the reconstruction of the verification loop for
\* one participant that has events and a summary row.
VerifyParticipant ==
    /\ UNCHANGED <<results, media, filtering>>
    /\ pc = "loaded"
    /\ events # <<>>
    /\ pc' = "verified"
    /\ \E r \in {ReconstructA(events, firebase_duration(duration))} : Store(r)
    /\ UNCHANGED <<events, duration, inputs, counters, main_pc, idx, sample_count,
                    checks, report>>

\* analyze_llm_usage.main, get_media_times for one participant with events.
CalculateTabTimes ==
    /\ UNCHANGED <<results, media, filtering>>
    /\ pc = "loaded"
    /\ events # <<>>
    /\ pc' = "calculated"
    /\ \E r \in {ReconstructB(events)} : Store(r)
    /\ UNCHANGED <<events, duration, inputs, counters, main_pc, idx, sample_count,
                    checks, report>>

Next == VerifyParticipant \/ CalculateTabTimes

Spec == Init /\ [][Next]_vars

\* ------------------------------------- sessions shorter than their events
\* Event rows spread over a longer stretch of time than the recorded
\* durations: switches to two activities and passive events.
SkewRows ==
    [timestamp : {ToString(n) : n \in 1..MaxSkewTs}, eventType : {"focus_switch"},
     to : {"chat", "video"}]
    \cup [timestamp : {ToString(n) : n \in 1..MaxSkewTs},
          eventType : {"scroll_action"}, to : {""}]

InitSkew ==
    /\ NoExtras
    /\ events \in SeqsUpTo(SkewRows, MaxEvents)
    /\ duration \in RawDurations
    /\ pc = "loaded"
    /\ skipped = FALSE
    /\ anchor = NoAnchor
    /\ scan = <<>>
    /\ scanned = <<>>
    /\ segments = <<>>
    /\ tab_times = <<>>
    /\ NoRun

SpecSkew == InitSkew /\ [][Next]_vars

\* ------------------------------------------- cells that hold no number
\* What a numeric column can hold instead of a number: an unfilled cell,
\* the empty string, the text 'None', and text that spells no number.
NoNumber == {PyNone, "", "None", "abc", "12:30"}

\* Event rows whose timestamp is one of those or a number.
CoercionRows ==
    [timestamp : NoNumber \cup {"1", "2"}, eventType : {"focus_switch"}, to : {"chat"}]
    \cup [timestamp : NoNumber \cup {"1", "2"}, eventType : {"scroll_action"},
          to : {""}]

InitCoercion ==
    /\ NoExtras
    /\ events \in SeqsUpTo(CoercionRows, MaxEvents)
    /\ duration \in NoNumber \cup {"1"}
    /\ pc = "loaded"
    /\ skipped = FALSE
    /\ anchor = NoAnchor
    /\ scan = <<>>
    /\ scanned = <<>>
    /\ segments = <<>>
    /\ tab_times = <<>>
    /\ NoRun

SpecCoercion == InitCoercion /\ [][Next]_vars

\* ------------------------------------ verify_tab_times.main, the whole run
Pids == 1..MaxParticipants

Row(ts, type, to) == [timestamp |-> ts, eventType |-> type, to |-> to]

\* Event streams of the participants of a run: no events, events without a
\* usable timestamp, streams with one or two switches, and a switch to a
\* label outside the known activities.
RunStreams ==
    { <<>>,
      <<Row("", "scroll_action", "")>>,
      <<Row("100", "focus_switch", "chat")>>,
      <<Row("100", "focus_switch", "chat"), Row("300", "scroll_action", "")>>,
      <<Row("300", "focus_switch", ""), Row("100", "focus_switch", "chat")>>,
      <<Row("100", "focus_switch", "quiz"), Row("300", "scroll_action", "")>> }

\* Summary rows of a participant: none, or one with this duration field.
RunSummaries ==
    {<<>>, <<[duration |-> ""]>>, <<[duration |-> "200"]>>, <<[duration |-> "300"]>>}

Conditions == {"with_llm", "with_llm_extended", "without_llm"}

\* llm_pids: the participants of the two LLM conditions, in file order.
llm_pids ==
    SelectSeq([p \in Pids |-> p],
              LAMBDA p : merged_all[p] \in {"with_llm", "with_llm_extended"})

\* What is kept of a participant's reconstruction.
NotVerified == [done |-> FALSE, segments |-> <<>>, tab_times |-> <<>>]
Outcome(r) == [done |-> TRUE, segments |-> r.segments, tab_times |-> r.tab_times]

InitMain ==
    /\ results = [p \in Pids |-> NotVerified]
    /\ focus_rows = <<>>
    /\ media_times = <<>>
    /\ data = <<>>
    /\ filtered = <<>>
    /\ filter_report = <<>>
    /\ merged_all \in [Pids -> Conditions]
    /\ reading_summary \in [Pids -> RunSummaries]
    /\ events_by_pid \in [Pids -> RunStreams]
    /\ main_pc = "verify"
    /\ idx = 1
    /\ total_checked = 0
    /\ overlap_count = 0
    /\ gap_count = 0
    /\ duration_match_count = 0
    /\ duration_mismatch_details = <<>>
    /\ sample_count = 0
    /\ events = <<>>
    /\ duration = ""
    /\ pc = "run"
    /\ skipped = FALSE
    /\ anchor = NoAnchor
    /\ scan = <<>>
    /\ scanned = <<>>
    /\ segments = <<>>
    /\ tab_times = <<>>
    /\ checks = NoChecks
    /\ NoReport

\* The number of sample participants the detailed check prints.
SampleLimit == 5

\* One pass of the verification loop, `for pid in llm_pids`.
VerifyIteration ==
    /\ UNCHANGED <<media, filtering>>
    /\ main_pc = "verify"
    /\ idx <= Len(llm_pids)
    /\ idx' = idx + 1
    /\ UNCHANGED <<inputs, main_pc, sample_count, pc, report>>
    /\ LET pid == llm_pids[idx]
           evs == events_by_pid[pid]
           summary == reading_summary[pid]
       IN  /\ events' = SortByTimestamp(evs)
           /\ IF evs = <<>> \/ summary = <<>>
              THEN UNCHANGED <<duration, skipped, anchor, scan, scanned, segments,
                               tab_times, counters, checks, results>>
              ELSE \E r \in {ReconstructA(evs, firebase_duration(summary[1].duration))} :
                   /\ total_checked' = total_checked + 1
                   /\ duration' = summary[1].duration
                   /\ IF r.skipped
                      THEN /\ skipped' = TRUE
                           /\ UNCHANGED <<anchor, scan, scanned, segments, tab_times,
                                           overlap_count, gap_count, duration_match_count,
                                           duration_mismatch_details, checks, results>>
                      ELSE /\ Store(r)
                           /\ results' = [results EXCEPT ![pid] = Outcome(r)]
                           /\ Verifications(r.segments,
                                            firebase_duration(summary[1].duration),
                                            pid, merged_all[pid])

\* The verification loop is over: the summary is printed and the detailed
\* check of the sample participants starts.
PrintSummary ==
    /\ UNCHANGED <<results, media, filtering>>
    /\ main_pc = "verify"
    /\ idx > Len(llm_pids)
    /\ main_pc' = "sample"
    /\ idx' = 1
    /\ UNCHANGED <<locals, inputs, counters, sample_count, checks, report>>

\* One pass of the sample loop.  It recomputes the reconstruction without
\* the empty check on all_timestamps: min() of an empty list raises
\* ValueError, which nothing catches.
SampleIteration ==
    /\ UNCHANGED <<results, media, filtering>>
    /\ main_pc = "sample"
    /\ idx <= Len(llm_pids)
    /\ UNCHANGED <<inputs, counters, pc, checks, report>>
    /\ IF sample_count >= SampleLimit
       THEN /\ main_pc' = "done"
            /\ UNCHANGED <<idx, sample_count, events, duration, skipped, anchor,
                            scan, scanned, segments, tab_times>>
       ELSE LET pid == llm_pids[idx]
                evs == events_by_pid[pid]
                summary == reading_summary[pid]
            IN  /\ events' = SortByTimestamp(evs)
                /\ IF evs = <<>> \/ summary = <<>>
                   THEN /\ idx' = idx + 1
                        /\ UNCHANGED <<main_pc, sample_count, duration, skipped, anchor,
                                        scan, scanned, segments, tab_times>>
                   ELSE \E r \in {ReconstructA(evs, firebase_duration(summary[1].duration))} :
                        /\ sample_count' = sample_count + 1
                        /\ duration' = summary[1].duration
                        /\ IF all_timestamps(evs) = {}
                           THEN /\ main_pc' = "raised"
                                /\ UNCHANGED <<idx, skipped, anchor, scan, scanned,
                                                segments, tab_times>>
                           ELSE /\ Store(r)
                                /\ idx' = idx + 1
                                /\ UNCHANGED main_pc

\* The sample loop has run through llm_pids: main returns.
Finish ==
    /\ UNCHANGED <<results, media, filtering>>
    /\ main_pc = "sample"
    /\ idx > Len(llm_pids)
    /\ main_pc' = "done"
    /\ UNCHANGED <<locals, inputs, counters, idx, sample_count, checks, report>>

NextMain == VerifyIteration \/ PrintSummary \/ SampleIteration \/ Finish

SpecMain == InitMain /\ [][NextMain]_vars

\* ------------------- the verifier checks and the aggregation, any segments
\* Segment lists the checks are applied to: intervals between the points
\* 0..MaxPoint in any order, and segments of two tabs.
IntervalSegments ==
    {Segment(p[1], p[2], "reading") :
        p \in {q \in (0..MaxPoint) \X (0..MaxPoint) : q[1] < q[2]}}

LabelledSegments ==
    {Segment(0, d, t) : d \in 1..MaxPoint, t \in {"reading", "chat"}}

\* The duration field of the summary row: absent, or around the tolerance.
CheckDurations == {"", "100", "101"}

InitChecks ==
    /\ NoExtras
    /\ segments \in SeqsUpTo(IntervalSegments, MaxSegments)
                      \cup SeqsUpTo(LabelledSegments, MaxSegments)
    /\ duration \in CheckDurations
    /\ pc = "reconstructed"
    /\ events = <<>>
    /\ skipped = FALSE
    /\ anchor = NoAnchor
    /\ scan = <<>>
    /\ scanned = <<>>
    /\ tab_times = <<>>
    /\ merged_all = <<"with_llm">>
    /\ reading_summary = <<>>
    /\ events_by_pid = <<>>
    /\ main_pc = "verify"
    /\ idx = 1
    /\ total_checked = 1
    /\ overlap_count = 0
    /\ gap_count = 0
    /\ duration_match_count = 0
    /\ duration_mismatch_details = <<>>
    /\ sample_count = 0
    /\ checks = NoChecks
    /\ NoReport

\* The rest of the loop body once the participant's segments are built:
\* verifications 1 to 3 and the time per tab.
CheckSegments ==
    /\ UNCHANGED <<results, media, filtering>>
    /\ pc = "reconstructed"
    /\ pc' = "checked"
    /\ Verifications(segments, firebase_duration(duration), idx, merged_all[idx])
    /\ tab_times' = TabTimes(segments)
    /\ UNCHANGED <<events, duration, skipped, anchor, scan, scanned, segments,
                    inputs, total_checked, main_pc, idx, sample_count, report>>

NextChecks == CheckSegments

SpecChecks == InitChecks /\ [][NextChecks]_vars

\* ------------------------------------------ the reports: ratios and means
\* A quotient of two numbers, kept exact.
Quotient(n, d) == [num |-> n, den |-> d]

\* The three duration fields of a summary row: nothing recorded, all three
\* positive, and no reading time at all.
ReportTotals == {<<"", "0", "">>, <<"2", "1", "1">>, <<"0", "3", "">>}

\* A row of reading_summary.csv with pid_to_condition.get(pid) looked up:
\* "" when the participant is not in experiments.csv.
SummaryRows ==
    {[condition |-> c, reading_totalDuration |-> t[1],
      scanning_totalDuration |-> t[2], scrolling_totalDuration |-> t[3]] :
        c \in Conditions \cup {""}, t \in ReportTotals}

\* section_class_times per condition, from reading_events.csv.
SectionClassTimes == {[c \in Conditions |-> 0], [c \in Conditions |-> 6]}

Media == {"reading", "chat", "video", "audio", "infographics"}

\* The means calculate_stats returns per medium: None for an empty group.
MediaMeans ==
    { [m \in Media |-> None],
      [m \in Media |-> Float(0)],
      [m \in Media |-> IF m = "reading" THEN Float(3)
                        ELSE IF m = "chat" THEN Float(1) ELSE Float(0)] }

\* Each run writes one of the two reports.
InitReport ==
    /\ NoExtras
    /\ \/ /\ report_pc = "reading_patterns"
          /\ summary_rows \in SeqsUpTo(SummaryRows, MaxRows)
          /\ section_class_times \in SectionClassTimes
          /\ media_means = <<>>
       \/ /\ report_pc = "llm_usage"
          /\ summary_rows = <<>>
          /\ section_class_times = <<>>
          /\ media_means \in MediaMeans
    /\ reading_ratios = <<>>
    /\ section_class_means = <<>>
    /\ time_allocation = <<>>
    /\ events = <<>>
    /\ duration = ""
    /\ pc = "report"
    /\ skipped = FALSE
    /\ anchor = NoAnchor
    /\ scan = <<>>
    /\ scanned = <<>>
    /\ segments = <<>>
    /\ tab_times = <<>>
    /\ merged_all = <<>>
    /\ reading_summary = <<>>
    /\ events_by_pid = <<>>
    /\ main_pc = "idle"
    /\ idx = 0
    /\ total_checked = 0
    /\ overlap_count = 0
    /\ gap_count = 0
    /\ duration_match_count = 0
    /\ duration_mismatch_details = <<>>
    /\ sample_count = 0
    /\ checks = NoChecks

\* reading_time + scanning_time + scrolling_time, each `safe_float(..) or 0`
reading_time(row) == OrZero(safe_float(row.reading_totalDuration))
total_time(row) ==
    reading_time(row) + OrZero(safe_float(row.scanning_totalDuration))
        + OrZero(safe_float(row.scrolling_totalDuration))

\* The rows that get a ratio: a condition is known and total_time > 0.
HasRatio(row) == row.condition # "" /\ total_time(row) > 0

\* The ratios the loop over reading_summary appends, in row order.
RECURSIVE RatiosOf(_, _)
RatiosOf(rows, conds) ==
    IF rows = <<>> THEN <<>>
    ELSE (IF HasRatio(Head(rows)) /\ Head(rows).condition \in conds
          THEN <<Quotient(reading_time(Head(rows)), total_time(Head(rows)))>>
          ELSE <<>>) \o RatiosOf(Tail(rows), conds)

\* analyze_reading_patterns.main, part 1: the reading ratio of each row.
ReadingRatios ==
    /\ UNCHANGED <<results, media, filtering>>
    /\ report_pc = "reading_patterns"
    /\ reading_ratios' =
           [all |-> RatiosOf(summary_rows, Conditions),
            by_condition |-> [c \in Conditions |-> RatiosOf(summary_rows, {c})]]
    /\ report_pc' = "stats"
    /\ UNCHANGED <<summary_rows, section_class_times, media_means,
                    section_class_means, time_allocation>>
    /\ UNCHANGED <<locals, inputs, counters, main_pc, idx, sample_count, checks>>

\* The descriptive statistics: calculate_stats gives mean None for an empty
\* list, and formatting None with :.4f raises TypeError.
DescriptiveStats ==
    /\ UNCHANGED <<results, media, filtering>>
    /\ report_pc = "stats"
    /\ report_pc' =
           IF reading_ratios.all = <<>>
              \/ \E c \in Conditions : reading_ratios.by_condition[c] = <<>>
           THEN "TypeError" ELSE "anova"
    /\ UNCHANGED <<summary_rows, section_class_times, media_means, reading_ratios,
                    section_class_means, time_allocation>>
    /\ UNCHANGED <<locals, inputs, counters, main_pc, idx, sample_count, checks>>

\* one_way_anova: msw = ssw / df_within with df_within = n_total - k.
OneWayAnova ==
    /\ UNCHANGED <<results, media, filtering>>
    /\ report_pc = "anova"
    /\ report_pc' =
           IF Len(reading_ratios.all) - Cardinality(Conditions) = 0
           THEN "ZeroDivisionError" ELSE "sections"
    /\ UNCHANGED <<summary_rows, section_class_times, media_means, reading_ratios,
                    section_class_means, time_allocation>>
    /\ UNCHANGED <<locals, inputs, counters, main_pc, idx, sample_count, checks>>

participants_per_condition ==
    [c \in Conditions |-> Len(reading_ratios.by_condition[c])]

\* Part 2: section_class_times / n per condition.
SectionMeans ==
    /\ UNCHANGED <<results, media, filtering>>
    /\ report_pc = "sections"
    /\ IF \E c \in Conditions : participants_per_condition[c] = 0
       THEN /\ report_pc' = "ZeroDivisionError"
            /\ UNCHANGED section_class_means
       ELSE /\ report_pc' = "done"
            /\ section_class_means' =
                   [c \in Conditions |->
                       Quotient(section_class_times[c], participants_per_condition[c])]
    /\ UNCHANGED <<summary_rows, section_class_times, media_means, reading_ratios,
                    time_allocation>>
    /\ UNCHANGED <<locals, inputs, counters, main_pc, idx, sample_count, checks>>

\* wle_<medium> = stats[medium]['mean'] or 0
wle(m) == OrZero(media_means[m])

RECURSIVE SumOver(_, _)
SumOver(f, S) ==
    IF S = {} THEN 0
    ELSE LET x == CHOOSE y \in S : TRUE IN f[x] + SumOver(f, S \ {x})

total_extended == SumOver([m \in Media |-> wle(m)], Media)

\* analyze_llm_usage.main: the time allocation percentages of
\* with_llm_extended, written only for a positive total.
TimeAllocation ==
    /\ UNCHANGED <<results, media, filtering>>
    /\ report_pc = "llm_usage"
    /\ report_pc' = "allocated"
    /\ time_allocation' =
           IF total_extended > 0
           THEN [m \in Media |-> Quotient(wle(m) * 100, total_extended)]
           ELSE <<>>
    /\ UNCHANGED <<summary_rows, section_class_times, media_means, reading_ratios,
                    section_class_means>>
    /\ UNCHANGED <<locals, inputs, counters, main_pc, idx, sample_count, checks>>

NextReport ==
    ReadingRatios \/ DescriptiveStats \/ OneWayAnova \/ SectionMeans \/ TimeAllocation

SpecReport == InitReport /\ [][NextReport]_vars

\* ------------------------------------- analyze_llm_usage: get_media_times
\* The reading_focusTime_reading / reading_focusTime_chat fields of a
\* merged_all row: absent, or a recorded number of milliseconds.
FocusValues == {"", "1000"}

FocusRows ==
    [reading_focusTime_reading : FocusValues, reading_focusTime_chat : FocusValues]

\* Milliseconds to seconds.
Seconds(ms) == Quotient(ms, 1000)

\* get_media_times with reading and chat taken from the events as well.
get_media_times_FromEvents(participant, evs) ==
    LET tab_times_ms ==
            IF evs # <<>> THEN calculate_tab_times_from_events(evs).tab_times ELSE <<>>
    IN  [reading |-> Seconds(Total(tab_times_ms, "reading")),
         chat |-> Seconds(Total(tab_times_ms, "chat")),
         video |-> Seconds(Total(tab_times_ms, "video")),
         audio |-> Seconds(Total(tab_times_ms, "audio")),
         infographics |-> Seconds(Total(tab_times_ms, "infographics"))]

\* get_media_times: reading and chat are the recorded focus times of the
\* row; video, audio and infographics come from the participant's events
\* (sorted by main before the call).
get_media_times(participant, evs) ==
    LET tab_times_ms ==
            IF evs # <<>> THEN calculate_tab_times_from_events(evs).tab_times ELSE <<>>
    IN  [reading |->
             Seconds(OrZero(safe_float(participant.reading_focusTime_reading))),
         chat |-> Seconds(OrZero(safe_float(participant.reading_focusTime_chat))),
         video |-> Seconds(Total(tab_times_ms, "video")),
         audio |-> Seconds(Total(tab_times_ms, "audio")),
         infographics |-> Seconds(Total(tab_times_ms, "infographics"))]

\* One participant's events and two rows for the participant that differ
\* in nothing but the recorded focus times.
InitMedia ==
    /\ events \in SeqsUpTo(EventRows, MaxMediaEvents)
    /\ focus_rows \in FocusRows \X FocusRows
    /\ media_times = <<>>
    /\ pc = "participant"
    /\ duration = ""
    /\ skipped = FALSE
    /\ anchor = NoAnchor
    /\ scan = <<>>
    /\ scanned = <<>>
    /\ segments = <<>>
    /\ tab_times = <<>>
    /\ NoRun
    /\ results = <<>>
    /\ data = <<>>
    /\ filtered = <<>>
    /\ filter_report = <<>>

\* with_llm_media = [get_media_times(p) for p in with_llm], for each of
\* the two rows.
GetMediaTimes ==
    /\ pc = "participant"
    /\ pc' = "media"
    /\ media_times' = [k \in 1..2 |-> get_media_times(focus_rows[k], SortByTimestamp(events))]
    /\ IF events = <<>>
       THEN UNCHANGED <<skipped, anchor, scan, scanned, segments, tab_times>>
       ELSE \E r \in {ReconstructB(events)} : Store(r)
    /\ UNCHANGED <<events, duration, inputs, counters, main_pc, idx, sample_count,
                    checks, report, results, focus_rows, filtering>>

NextMedia == GetMediaTimes

SpecMedia == InitMedia /\ [][NextMedia]_vars

\* ------------------------------------ preprocess_data: filter_experiments
\* A participantId as exported: the id proper and the e-mail suffix it may
\* carry.  The absent id and the empty string are both Pid("", "").
Pid(id, suffix) == [id |-> id, suffix |-> suffix]

ProlificSuffixes == {"@auth.prolific.com", "@email.prolific.com"}

\* The test ids that are dropped (the first one is a long pasted text).
EXCLUDE_IDS == {Pid("Q1. Please list the specific strategies ...", ""), Pid("C8D1FZR6", "")}

\* The ids of 24 hexadecimal characters among those of the model.
HexIds == {"5f1e2d3c4b5a69788796a5b4"}

PROLIFIC_ID_PATTERN_match(pid) == pid.suffix = "" /\ pid.id \in HexIds

normalize_participant_id(pid) ==
    IF pid.suffix \in ProlificSuffixes THEN Pid(pid.id, "") ELSE pid

\* `not pid`: nothing is left of the id.
Falsy(pid) == pid = Pid("", "")

RawPids ==
    {Pid("5f1e2d3c4b5a69788796a5b4", ""),
     Pid("5f1e2d3c4b5a69788796a5b4", "@auth.prolific.com"),
     Pid("tester", "@email.prolific.com"),
     Pid("C8D1FZR6", ""),
     Pid("", "")}

Statuses == {"completed", "in_progress"}

\* preTask.completedAt as exported: absent, two instants, and a text that
\* is no ISO date.
RawCompletedAt == {"", "2025-12-01T10:00:00.000Z", "2025-12-02T10:00:00.000Z", "pending"}

\* datetime.fromisoformat(ts_str.replace('Z', '+00:00')), as the number of
\* days since datetime.min; a text it cannot parse raises, and the bare
\* except of get_created_at turns that into None.
fromisoformat(ts_str) ==
    IF ts_str = "2025-12-01T10:00:00.000Z" THEN [raised |-> FALSE, t |-> 739585]
    ELSE IF ts_str = "2025-12-02T10:00:00.000Z" THEN [raised |-> FALSE, t |-> 739586]
    ELSE [raised |-> TRUE, t |-> 0]

get_created_at(exp) ==
    LET ts_str == exp.preTask_completedAt
    IN  IF ts_str # "" /\ ~fromisoformat(ts_str).raised
        THEN [isNone |-> FALSE, t |-> fromisoformat(ts_str).t]
        ELSE [isNone |-> TRUE, t |-> 0]

\* key=lambda e: get_created_at(e) or datetime.min.replace(tzinfo=utc)
CreatedKey(e) == IF get_created_at(e).isNone THEN 0 ELSE get_created_at(e).t

\* The experiments of the export: experimentId is the position in the file.
Experiments(n) ==
    {d \in [1..n -> [experimentId : 1..n, participantId : RawPids, status : Statuses,
                     preTask_completedAt : RawCompletedAt]] :
        \A i \in 1..n : d[i].experimentId = i}

RECURSIVE Grouped(_, _)
\* by_participant: the normalized ids in the order of their first
\* experiment, each with its experiments in file order.
Grouped(d, by_participant) ==
    IF d = <<>> THEN by_participant
    ELSE LET exp == Head(d)
             pid_raw == exp.participantId
             pid == normalize_participant_id(pid_raw)
             at == {k \in DOMAIN by_participant : by_participant[k].pid = pid}
         IN  IF pid_raw \in EXCLUDE_IDS \/ Falsy(pid)
             THEN Grouped(Tail(d), by_participant)
             ELSE IF at = {}
             THEN Grouped(Tail(d),
                          Append(by_participant, [pid |-> pid, experiments |-> <<exp>>]))
             ELSE Grouped(Tail(d),
                          [by_participant EXCEPT
                              ![CHOOSE k \in at : TRUE].experiments = Append(@, exp)])

\* Position of e in a list sorted by ascending key, after its equals.
CreatedPos_Ascending(sorted, e) ==
    Cardinality({k \in DOMAIN sorted : CreatedKey(sorted[k]) <= CreatedKey(e)}) + 1

\* Position of e in a list sorted by descending key: reverse=True keeps
\* the file order of experiments with equal keys.
CreatedPos(sorted, e) ==
    Cardinality({k \in DOMAIN sorted : CreatedKey(sorted[k]) >= CreatedKey(e)}) + 1

RECURSIVE SortByCreatedAt(_, _)
\* sorted(completed, key=..., reverse=True), built by insertion.
SortByCreatedAt(sorted, rest) ==
    IF rest = <<>> THEN sorted
    ELSE LET e == Head(rest)
             k == CreatedPos(sorted, e)
         IN  SortByCreatedAt(SubSeq(sorted, 1, k - 1) \o <<e>> \o
                                 SubSeq(sorted, k, Len(sorted)),
                             Tail(rest))

IsCompleted(e) == e.status = "completed"

RECURSIVE FilterLoop(_, _, _)
\* for pid, experiments in by_participant.items(): ...
FilterLoop(by_participant, out, rep) ==
    IF by_participant = <<>> THEN [filtered |-> out, report |-> rep]
    ELSE LET pid == Head(by_participant).pid
             experiments == Head(by_participant).experiments
             completed == SelectSeq(experiments, IsCompleted)
             report1 == IF PROLIFIC_ID_PATTERN_match(pid) THEN rep
                        ELSE [rep EXCEPT !.invalid_pid_format = Append(@, pid)]
             completed_sorted == SortByCreatedAt(<<>>, completed)
         IN  IF Len(completed) = 0
             THEN FilterLoop(Tail(by_participant), out,
                      [report1 EXCEPT !.excluded_no_completed =
                          Append(@, [pid |-> pid,
                                     total_experiments |-> Len(experiments),
                                     statuses |-> [k \in DOMAIN experiments |->
                                                      experiments[k].status]])])
             ELSE IF Len(completed) = 1
             THEN FilterLoop(Tail(by_participant), Append(out, completed[1]), report1)
             ELSE FilterLoop(Tail(by_participant), Append(out, completed_sorted[1]),
                      [report1 EXCEPT !.multiple_completed =
                          Append(@, [pid |-> pid,
                                     count |-> Len(completed),
                                     used_experiment_id |-> completed_sorted[1].experimentId,
                                     all_created_at |->
                                         [k \in DOMAIN completed_sorted |->
                                             get_created_at(completed_sorted[k])]])])

filter_experiments(d) ==
    LET by_participant == Grouped(d, <<>>)
    IN  FilterLoop(by_participant, <<>>,
                   [total_participants_raw |-> Len(by_participant),
                    excluded_no_completed |-> <<>>,
                    multiple_completed |-> <<>>,
                    invalid_pid_format |-> <<>>])

\* raw_data has been loaded; nothing is filtered yet.
InitFilter ==
    /\ data \in UNION {Experiments(n) : n \in 0..MaxExperiments}
    /\ filtered = <<>>
    /\ filter_report = <<>>
    /\ pc = "raw"
    /\ events = <<>>
    /\ duration = ""
    /\ skipped = FALSE
    /\ anchor = NoAnchor
    /\ scan = <<>>
    /\ scanned = <<>>
    /\ segments = <<>>
    /\ tab_times = <<>>
    /\ NoRun
    /\ results = <<>>
    /\ focus_rows = <<>>
    /\ media_times = <<>>

\* filtered_data, filter_report = filter_experiments(raw_data)
FilterExperiments ==
    /\ pc = "raw"
    /\ pc' = "filtered"
    /\ \E r \in {filter_experiments(data)} :
           /\ filtered' = r.filtered
           /\ filter_report' = r.report
    /\ UNCHANGED <<data, events, duration, skipped, anchor, scan, scanned, segments,
                    tab_times, inputs, counters, main_pc, idx, sample_count, checks,
                    report, results, media>>

NextFilter == FilterExperiments

SpecFilter == InitFilter /\ [][NextFilter]_vars

\* ------------------------------------------------------------ properties
Valid(e) == ~safe_float(e.timestamp).isNone
Ts(e) == safe_float(e.timestamp).v
RealLabel(to) == to # "" /\ to # "phase_complete"

Verified == pc = "verified" /\ ~skipped
Calculated == pc = "calculated" /\ ~skipped

\* The segments step j of the scan emitted; step Len(scanned) + 1 is the
\* final step after the loop.
SegmentsBefore(j) == scan[j].segments
SegmentsAfter(j) == IF j <= Len(scanned) THEN scan[j + 1].segments ELSE segments
EmittedAt(j) ==
    SubSeq(SegmentsAfter(j), Len(SegmentsBefore(j)) + 1, Len(SegmentsAfter(j)))

Contiguous(segs) == \A i \in 1..(Len(segs) - 1) : segs[i].end = segs[i + 1].start

RemoveAt(s, i) == SubSeq(s, 1, i - 1) \o SubSeq(s, i + 1, Len(s))

\* C1 (as claimed): the anchored segments are contiguous, the first starts
\* at sessionStart and the last ends at sessionEnd, for every event stream
\* and every sessionDuration.
C1_Coverage ==
    Verified =>
        /\ Contiguous(segments)
        /\ IF segments = <<>>
           THEN anchor.session_start >= anchor.session_end
           ELSE /\ segments[1].start = anchor.session_start
                /\ segments[Len(segments)].end = anchor.session_end

\* C2 (as claimed): the durations of the anchored segments add up to
\* sessionDuration exactly.
C2_DurationConservation ==
    Verified => SumDurations(segments) = firebase_duration(duration)

\* C3: no two segments of a reconstruction (anchored or unanchored) have
\* intersecting half-open intervals.
C3_NonOverlap ==
    pc \in {"verified", "calculated"} =>
        \A i \in DOMAIN segments : \A j \in DOMAIN segments :
            i # j => ~(segments[i].start < segments[j].end
                       /\ segments[j].start < segments[i].end)

C3_Witness ==
    /\ Verified
    /\ Len(segments) >= 3
    /\ \E i \in 1..(Len(events) - 1) : SortKey(events[i]) > SortKey(events[i + 1])

C5_NoSentinelKey ==
    pc = "calculated" => "phase_complete" \notin DOMAIN tab_times

TiedInFile(t) == SelectSeq(switch_events(events), LAMBDA e : Valid(e) /\ Ts(e) = t)
TiedInScan(t) == SelectSeq(scanned, LAMBDA e : Valid(e) /\ Ts(e) = t)
RealOnes(evs) == SelectSeq(evs, LAMBDA e : RealLabel(e.to))

\* C7: switch events sharing a timestamp are scanned in file order, at most
\* one segment ends at that timestamp, no segment has zero length, and a
\* segment starting at it is tagged with the `to` of the last tied event
\* that carries a real activity label.
C7_TieBreak ==
    Verified =>
        \A t \in 0..(MaxTs + 1) :
            Len(TiedInFile(t)) >= 2 =>
                /\ TiedInScan(t) = TiedInFile(t)
                /\ Cardinality({i \in DOMAIN segments : segments[i].end = t}) <= 1
                /\ \A i \in DOMAIN segments : segments[i].end > segments[i].start
                /\ RealOnes(TiedInFile(t)) # <<>> =>
                       \A i \in DOMAIN segments :
                           segments[i].start = t =>
                               segments[i].tab =
                                   RealOnes(TiedInFile(t))[Len(RealOnes(TiedInFile(t)))].to

C7_Witness ==
    /\ Verified
    /\ \E t \in 0..MaxTs :
          /\ Len(RealOnes(TiedInFile(t))) >= 2
          /\ RealOnes(TiedInFile(t))[1].to # RealOnes(TiedInFile(t))[2].to
          /\ \E i \in DOMAIN segments : segments[i].end = t
          /\ \E i \in DOMAIN segments : segments[i].start = t

\* A no-op switch: scan step i visits an event with an empty `to` whose
\* timestamp lies after segmentStart.
NoOpAt(i) ==
    /\ scanned[i].to = ""
    /\ Valid(scanned[i])
    /\ Ts(scanned[i]) > scan[i].segment_start

\* What the step does: the tab stays, one segment is closed at ts and
\* segmentStart moves to ts.
NoOpStep(i) ==
    /\ scan[i + 1].current_tab = scan[i].current_tab
    /\ scan[i + 1].segment_start = Ts(scanned[i])
    /\ scan[i + 1].segments =
           Append(scan[i].segments,
                  Segment(scan[i].segment_start, Ts(scanned[i]), scan[i].current_tab))

\* The position in file order of the event scan step i visits (the sort
\* keeps ties in file order).
FileIndex(i) ==
    CHOOSE k \in DOMAIN events :
        /\ IsSwitch(events[k])
        /\ i = Cardinality({j \in DOMAIN events :
                    /\ IsSwitch(events[j])
                    /\ \/ SortKey(events[j]) < SortKey(events[k])
                       \/ SortKey(events[j]) = SortKey(events[k]) /\ j <= k})

\* C8 (as claimed): a no-op switch yields two adjacent segments with the
\* same tab, and the tab's total equals the total of the reconstruction on
\* the events without it.
C8_NoOpAsClaimed ==
    Verified =>
        \A i \in DOMAIN scanned :
            NoOpAt(i) =>
                LET n == Len(scan[i + 1].segments)
                    tab == scan[i].current_tab
                    without == ReconstructA(RemoveAt(events, FileIndex(i)),
                                            firebase_duration(duration))
                IN  /\ NoOpStep(i)
                    /\ Len(segments) > n
                    /\ segments[n + 1].start = segments[n].end
                    /\ segments[n + 1].tab = segments[n].tab
                    /\ Total(tab_times, tab) = Total(without.tab_times, tab)

\* The segments of the scan over the same window that leaves out the event
\* of step i.
SegmentsSkipping(i) ==
    LET trace == ScanTraceA(InitialScan(anchor.session_start), RemoveAt(scanned, i))
    IN  FinalSegments(trace[Len(trace)], anchor.session_end)

\* C8 (amended): a no-op switch leaves the tab, closes a segment at ts and
\* moves segmentStart to ts; a segment emitted by the following step starts
\* at ts with the same tab; and for ts <= sessionEnd the tab's total equals
\* the total of the scan over the same window without the event.
C8_NoOp ==
    Verified =>
        \A i \in DOMAIN scanned :
            NoOpAt(i) =>
                /\ NoOpStep(i)
                /\ \A k \in DOMAIN EmittedAt(i + 1) :
                       /\ EmittedAt(i + 1)[k].start = Ts(scanned[i])
                       /\ EmittedAt(i + 1)[k].tab = scan[i].current_tab
                /\ Ts(scanned[i]) <= anchor.session_end =>
                       Total(tab_times, scan[i].current_tab)
                           = Total(TabTimes(SegmentsSkipping(i)), scan[i].current_tab)

C8_Witness ==
    /\ Verified
    /\ \E i \in DOMAIN scanned :
          /\ NoOpAt(i)
          /\ scan[i].current_tab = "chat"
          /\ EmittedAt(i + 1) # <<>>
          /\ Len(segments) = 3

\* The timestamps of the participant that parse to a number.
ParsedTimestamps == {Ts(events[i]) : i \in {j \in DOMAIN events : Valid(events[j])}}

\* C9 (as claimed): firstEventTs and lastEventTs are the minimum and the
\* maximum of all timestamps that parse to a number, 0 included, and the
\* anchored window is derived from them.
C9_Anchoring ==
    (pc \in {"verified", "calculated"} /\ ParsedTimestamps # {}) =>
        /\ ~skipped
        /\ anchor.first = Min(ParsedTimestamps)
        /\ anchor.last = Max(ParsedTimestamps)
        /\ pc = "verified" =>
               /\ anchor.session_start =
                      anchor.first - (firebase_duration(duration)
                                      - (anchor.last - anchor.first))
               /\ anchor.session_end =
                      anchor.session_start + firebase_duration(duration)

\* C10 (as claimed): a participant without a valid timestamp never makes
\* the run raise: both loops of main run to the end.
C10_NeverRaises == main_pc # "raised"

\* The participants the verification loop reconstructs: those of llm_pids
\* with events, a summary row and a usable timestamp.
Reconstructed(p) ==
    /\ events_by_pid[p] # <<>>
    /\ reading_summary[p] # <<>>
    /\ all_timestamps(events_by_pid[p]) # {}

\* The participants of llm_pids the loop has passed so far.
Passed ==
    {llm_pids[i] : i \in {j \in DOMAIN llm_pids :
                              main_pc # "verify" \/ j < idx}}

\* C11 (as claimed): a participant skipped for insufficient data (no
\* events, no summary row, or no valid timestamp) is not counted among the
\* participants checked: total_checked counts the reconstructed ones only.
C11_SkipTally ==
    main_pc \in {"verify", "sample", "done", "raised"} =>
        total_checked = Cardinality({p \in Passed : Reconstructed(p)})

\* ----------------------------------------- aggregation and verifier checks
Checked == pc = "checked"

\* The segments of a list that carry the tab t.
WithTab(segs, t) == SelectSeq(segs, LAMBDA s : s.tab = t)

\* The sum of the totals of a mapping.
RECURSIVE SumTotals(_)
SumTotals(times) ==
    IF DOMAIN times = {} THEN 0
    ELSE LET t == CHOOSE x \in DOMAIN times : TRUE
         IN  times[t] + SumTotals([u \in DOMAIN times \ {t} |-> times[u]])

\* The list segs in the order given by the permutation f of its positions.
Reordered(segs, f) == [i \in DOMAIN segs |-> segs[f[i]]]

\* C12: for every segment list the mapping gives each label the sum of the
\* durations of the segments with that label, its totals add up to the sum
\* of all segment durations, it is the same for every order of the
\* segments, its labels are the labels that occur in the list, and it is
\* the empty mapping for the empty list.
C12_Aggregation ==
    Checked =>
        /\ DOMAIN tab_times = {segments[i].tab : i \in DOMAIN segments}
        /\ \A t \in DOMAIN tab_times :
               tab_times[t] = SumDurations(WithTab(segments, t))
        /\ SumTotals(tab_times) = SumDurations(segments)
        /\ \A f \in Permutations(DOMAIN segments) :
               TabTimes(Reordered(segments, f)) = tab_times
        /\ segments = <<>> => tab_times = <<>>

C12_Witness ==
    /\ Checked
    /\ Len(segments) = 3
    /\ segments[1].tab = "chat"
    /\ segments[2].tab = "reading"
    /\ segments[3].tab = "chat"
    /\ segments[1].duration > segments[3].duration
    /\ tab_times["chat"] = segments[1].duration + segments[3].duration

\* The rows of the summary whose participant has a condition.
RowsWithCondition == SelectSeq(summary_rows, LAMBDA row : row.condition # "")

\* C13 (as claimed): every ratio is defined, as 0 when its denominator is
\* 0: each participant with a condition gets a reading ratio and each
\* medium gets a share of the total; and no division of a ratio
\* computation has a zero denominator.
C13_Ratio ==
    /\ report_pc \in {"stats", "anova", "sections", "done"} =>
           /\ Len(reading_ratios.all) = Len(RowsWithCondition)
           /\ \A i \in DOMAIN RowsWithCondition :
                  total_time(RowsWithCondition[i]) = 0 =>
                      reading_ratios.all[i].num = 0
    /\ report_pc = "sections" =>
           \A c \in Conditions : participants_per_condition[c] > 0
    /\ report_pc = "allocated" =>
           /\ DOMAIN time_allocation = Media
           /\ total_extended = 0 => \A m \in Media : time_allocation[m].num = 0

\* Two distinct segments of the list whose half-open intervals intersect.
SomePairIntersects(segs) ==
    \E i \in DOMAIN segs : \E j \in DOMAIN segs :
        /\ i # j
        /\ segs[i].start < segs[j].end
        /\ segs[j].start < segs[i].end

\* C14: for every segment list the overlap flag is true exactly when two
\* distinct segments s1, s2 have s1.start < s2.end and s2.start < s1.end
\* (the early exit of the loops does not change that), and the participant
\* adds 1 to the overlap counter when the flag is set and nothing otherwise.
C14_CheckOverlap ==
    Checked =>
        /\ checks.has_overlap <=> SomePairIntersects(segments)
        /\ overlap_count = IF checks.has_overlap THEN 1 ELSE 0

C14_Witness ==
    /\ Checked
    /\ Len(segments) = 3
    /\ ~Intersects(segments[1], segments[2])
    /\ ~Intersects(segments[2], segments[3])
    /\ segments[1].end = segments[2].start
    /\ checks.has_overlap
    /\ overlap_count = 1

\* The segments are in time order.
TimeOrdered(segs) == \A i \in 1..(Len(segs) - 1) : segs[i].start <= segs[i + 1].start

\* next.start - prev.end for the pair that starts at position i.
Difference(segs, i) == segs[i + 1].start - segs[i].end

\* The gap records are those of the pairs picked out by Flagged, in list
\* order, and each carries the 0-based position of prev and the difference.
GapRecordsAre(Flagged(_)) ==
    /\ \A i \in 1..(Len(segments) - 1) :
           (\E k \in DOMAIN checks.gaps : checks.gaps[k].after_segment = i - 1)
               <=> Flagged(Difference(segments, i))
    /\ \A k \in DOMAIN checks.gaps :
           /\ checks.gaps[k].after_segment \in 0..(Len(segments) - 2)
           /\ checks.gaps[k].gap_ms =
                  Difference(segments, checks.gaps[k].after_segment + 1)
    /\ \A k \in 1..(Len(checks.gaps) - 1) :
           checks.gaps[k].after_segment < checks.gaps[k + 1].after_segment

Exceeds(d) == d > 1
ExceedsEitherWay(d) == Abs(d) > 1

\* C15 (as claimed): for every segment list in time order a gap record is
\* produced for an adjacent pair exactly when next.start - prev.end exceeds
\* the 1 ms tolerance, and it carries that difference.
C15_GapsAsClaimed ==
    (Checked /\ TimeOrdered(segments)) => GapRecordsAre(Exceeds)

\* C15 (amended): for every segment list a gap record is produced for an
\* adjacent pair exactly when |next.start - prev.end| exceeds the 1 ms
\* tolerance, an overlap of more than 1 ms included, and it carries the
\* position of prev and the signed difference.
C15_CheckGaps ==
    Checked => GapRecordsAre(ExceedsEitherWay)

C15_Witness ==
    /\ Checked
    /\ TimeOrdered(segments)
    /\ Len(segments) = 3
    /\ Difference(segments, 1) = 1
    /\ Difference(segments, 2) = -2
    /\ checks.gaps = <<[after_segment |-> 1, gap_ms |-> -2]>>
    /\ gap_count = 1

\* C16 (as claimed): the participant is counted as a duration match exactly
\* when |sum(segment durations) - sessionDuration| <= 100, a difference of
\* exactly 100 ms included.
C16_DurationMatch ==
    Checked =>
        (duration_match_count = 1
            <=> Abs(SumDurations(segments) - firebase_duration(duration))
                    <= DurationTolerance)

\* The recorded duration of participant p (a summary row exists).
RecordedDuration(p) == firebase_duration(reading_summary[p][1].duration)

\* C17 (as claimed): after the verification loop every participant counted
\* in total_checked is either a duration match or has a mismatch record
\* (duration_match_count + number of records = total_checked), and each
\* record carries the participant id and the signed delta
\* segment_total - sessionDuration of that participant.
C17_Accounting ==
    main_pc \in {"sample", "done", "raised"} =>
        /\ duration_match_count + Len(duration_mismatch_details) = total_checked
        /\ \A k \in DOMAIN duration_mismatch_details :
               LET rec == duration_mismatch_details[k]
               IN  /\ rec.pid \in Passed
                   /\ Reconstructed(rec.pid)
                   /\ rec.diff =
                          SumDurations(ReconstructA(events_by_pid[rec.pid],
                                                    RecordedDuration(rec.pid)).segments)
                              - RecordedDuration(rec.pid)

\* C19 (as claimed): for an event list with at least one valid timestamp
\* the segments of calculate_tab_times_from_events start at firstEventTs,
\* end at lastEventTs and are contiguous, and the per-tab totals add up to
\* lastEventTs - firstEventTs.
C19_CoverageB ==
    (pc = "calculated" /\ ParsedTimestamps # {}) =>
        /\ Contiguous(segments)
        /\ segments # <<>> =>
               /\ segments[1].start = Min(ParsedTimestamps)
               /\ segments[Len(segments)].end = Max(ParsedTimestamps)
        /\ SumTotals(tab_times) = Max(ParsedTimestamps) - Min(ParsedTimestamps)

\* The known activity vocabulary.
Vocabulary == {"reading", "chat", "video", "audio", "infographics"}

\* C20 (as claimed): every segment the reconstructor emits carries a tab of
\* the known vocabulary, whatever non-empty `to` strings the participant's
\* switch events carry.
C20_TabVocabulary ==
    \A i \in DOMAIN segments : segments[i].tab \in Vocabulary

\* ------------------------------------------------- recorded focus times
EventMedia == {"video", "audio", "infographics"}

\* C21 (as claimed): two runs that differ only in the recorded
\* focusTime_reading / focusTime_chat of the participant give the same
\* per-activity totals, reading and chat included.
C21_FocusAsClaimed ==
    pc = "media" => media_times[1] = media_times[2]

\* C21 (amended): the recorded focus times do not reach the segments or
\* the totals computed from the events (video, audio, infographics are the
\* same in both runs and are the event totals in seconds); the reading and
\* chat times get_media_times reports are the recorded focus times of the
\* row in seconds, absent read as 0.
C21_FocusOnlyReported ==
    pc = "media" =>
        \A k \in 1..2 :
            /\ \A m \in EventMedia :
                   media_times[k][m] = Seconds(Total(tab_times, m))
            /\ media_times[k].reading =
                   Seconds(OrZero(safe_float(focus_rows[k].reading_focusTime_reading)))
            /\ media_times[k].chat =
                   Seconds(OrZero(safe_float(focus_rows[k].reading_focusTime_chat)))

C21_Witness ==
    /\ pc = "media"
    /\ focus_rows[1].reading_focusTime_reading = "1000"
    /\ focus_rows[2].reading_focusTime_reading = ""
    /\ focus_rows[1].reading_focusTime_chat = focus_rows[2].reading_focusTime_chat
    /\ media_times[1].reading.num = 1000
    /\ media_times[2].reading.num = 0
    /\ media_times[1].video.num > 0
    /\ Total(tab_times, "reading") > 0

\* ----------------------------------------------- participant independence
\* The reconstruction of one participant taken alone: the anchored window
\* of the participant's own events and duration, scanned from an empty
\* segment list with the default activity.
Alone(evs, dur) ==
    LET sorted_events == SortByTimestamp(evs)
        stamps == all_timestamps(sorted_events)
        session_end == Max(stamps)
        fresh == [segments |-> <<>>, current_tab |-> "reading",
                  segment_start |-> session_end - dur]
        trace == ScanTraceA(fresh, SortByTimestamp(switch_events(sorted_events)))
        segs == FinalSegments(trace[Len(trace)], session_end)
    IN  [done |-> TRUE, segments |-> segs, tab_times |-> AddSegments(<<>>, segs)]

\* C22: what the run keeps for a verified participant is the reconstruction
\* of that participant's own events and duration taken alone, whatever the
\* other participants are and whichever was processed before; a participant
\* the loop has not reconstructed has nothing.
C22_Independence ==
    \A p \in Pids :
        IF results[p].done
        THEN results[p] =
                 Alone(events_by_pid[p], firebase_duration(reading_summary[p][1].duration))
        ELSE results[p] = NotVerified

\* Two participants with the same events and duration, verified one after
\* the other, the first one ending in another activity than the default and
\* leaving segments behind.
C22_Witness ==
    /\ main_pc = "sample"
    /\ results[1].done
    /\ results[2].done
    /\ events_by_pid[1] = events_by_pid[2]
    /\ reading_summary[1] = reading_summary[2]
    /\ Len(results[1].segments) = 2
    /\ results[1].segments[2].tab = "chat"
    /\ results[2].segments[1].tab = "reading"
    /\ results[1] = results[2]

\* ------------------------------------------------- experiment filtering
\* The experiments of the export that belong to the normalized id p: not
\* one of the dropped test ids, and p is what is left of their id.
ExperimentsOf(p) ==
    {i \in DOMAIN data :
        /\ data[i].participantId \notin EXCLUDE_IDS
        /\ normalize_participant_id(data[i].participantId) = p}

CompletedOf(p) == {i \in ExperimentsOf(p) : data[i].status = "completed"}

\* The participants of the export: the normalized ids that are not empty.
Participants ==
    {p \in {normalize_participant_id(q) : q \in RawPids} :
        ~Falsy(p) /\ ExperimentsOf(p) # {}}

\* The returned experiments of participant p, by position in the result.
ReturnedFor(p) ==
    {k \in DOMAIN filtered : normalize_participant_id(filtered[k].participantId) = p}

\* Experiment a was created strictly later than b; an experiment without a
\* readable creation time counts as the earliest.
CreatedLater(a, b) ==
    /\ ~get_created_at(a).isNone
    /\ get_created_at(b).isNone \/ get_created_at(a).t > get_created_at(b).t

ListedIn(list, p) == {k \in DOMAIN list : list[k].pid = p}

\* C23: filter_experiments returns at most one experiment per normalized
\* participant id and only completed ones; a participant without a
\* completed experiment contributes nothing and is listed in
\* excluded_no_completed; a participant with exactly one contributes it; a
\* participant with two or more contributes one that no other completed
\* experiment of theirs is later than, and is listed in multiple_completed
\* with that experiment's id.
C23_Filtering ==
    pc = "filtered" =>
        /\ \A k \in DOMAIN filtered :
               /\ filtered[k].status = "completed"
               /\ filtered[k] = data[filtered[k].experimentId]
               /\ normalize_participant_id(filtered[k].participantId) \in Participants
        /\ \A p \in Participants :
               /\ Cardinality(ReturnedFor(p)) <= 1
               /\ CompletedOf(p) = {} =>
                      /\ ReturnedFor(p) = {}
                      /\ Cardinality(ListedIn(filter_report.excluded_no_completed, p)) = 1
               /\ CompletedOf(p) # {} =>
                      /\ ListedIn(filter_report.excluded_no_completed, p) = {}
                      /\ \E k \in ReturnedFor(p) :
                             /\ filtered[k].experimentId \in CompletedOf(p)
                             /\ \A i \in CompletedOf(p) : ~CreatedLater(data[i], filtered[k])
                             /\ IF Cardinality(CompletedOf(p)) >= 2
                                THEN \E m \in ListedIn(filter_report.multiple_completed, p) :
                                         /\ filter_report.multiple_completed[m].used_experiment_id
                                                = filtered[k].experimentId
                                         /\ filter_report.multiple_completed[m].count
                                                = Cardinality(CompletedOf(p))
                                ELSE ListedIn(filter_report.multiple_completed, p) = {}

\* Two completed experiments of one participant under two spellings of the
\* id, the later one second in the file, and a participant with no
\* completed experiment.
C23_Witness ==
    /\ pc = "filtered"
    /\ Len(data) = 3
    /\ data[1].participantId = Pid("5f1e2d3c4b5a69788796a5b4", "")
    /\ data[2].participantId = Pid("5f1e2d3c4b5a69788796a5b4", "@auth.prolific.com")
    /\ data[1].status = "completed"
    /\ data[2].status = "completed"
    /\ CreatedLater(data[2], data[1])
    /\ data[3].participantId = Pid("tester", "@email.prolific.com")
    /\ data[3].status = "in_progress"
    /\ filtered = <<data[2]>>
    /\ Len(filter_report.multiple_completed) = 1
    /\ Len(filter_report.excluded_no_completed) = 1

\* ------------------------------------------------------ degenerate steps
\* The step of switch event i finds its timestamp at or before segmentStart.
Degenerate(i) == Valid(scanned[i]) /\ Ts(scanned[i]) <= scan[i].segment_start

\* C24: in both variants the step of a switch event with ts <= segmentStart
\* emits no segment; every segment of the result has end > start and
\* duration = end - start > 0; the segments are in strictly increasing
\* order of start.
C24_DegenerateDropped ==
    (Verified \/ Calculated) =>
        /\ \A i \in DOMAIN scanned : Degenerate(i) => EmittedAt(i) = <<>>
        /\ \A k \in DOMAIN segments :
               /\ segments[k].end > segments[k].start
               /\ segments[k].duration = segments[k].end - segments[k].start
               /\ segments[k].duration > 0
        /\ \A k \in 1..(Len(segments) - 1) : segments[k].start < segments[k + 1].start

\* The anchored scan meets a second switch at the timestamp of the first
\* one and one behind segmentStart, and still emits a segment after them.
C24_Witness ==
    /\ Verified
    /\ \E i \in DOMAIN scanned :
           Degenerate(i) /\ Ts(scanned[i]) = scan[i].segment_start
    /\ \E i \in DOMAIN scanned :
           Degenerate(i) /\ Ts(scanned[i]) < scan[i].segment_start
    /\ segments # <<>>

\* ------------------------------------------------ the two variants agree
\* sessionDuration equals the event span, so the anchored window is the
\* window of the events.
DurationIsSpan == firebase_duration(duration) = anchor.last - anchor.first

\* C25: when sessionDuration equals the event span, the per-activity totals
\* of the anchored reconstruction equal those calculate_tab_times_from_events
\* gives for the same events.
C25_VariantsAgree ==
    (Verified /\ DurationIsSpan) =>
        tab_times = ReconstructB(events).tab_times

\* ------------------------------------------------------- order of the file
\* The scan visits the switch events in ascending order of the sort key.
ScannedAscending ==
    \A i \in 1..(Len(scanned) - 1) : SortKey(scanned[i]) <= SortKey(scanned[i + 1])

\* Positions a and b of the file hold switch events with one timestamp.
Tied(a, b) ==
    /\ IsSwitch(events[a]) /\ IsSwitch(events[b])
    /\ Valid(events[a]) /\ Valid(events[b])
    /\ Ts(events[a]) = Ts(events[b])

\* The permutation f of the file positions leaves the switch events of
\* each timestamp in their order.
KeepsTies(f) ==
    \A i \in DOMAIN f : \A j \in DOMAIN f :
        (i < j /\ Tied(f[i], f[j])) => f[i] < f[j]

\* C26 (as claimed): the totals of the unanchored variant are the same for
\* every permutation of the participant's event list.
C26_AnyOrderAsClaimed ==
    Calculated =>
        \A f \in Permutations(DOMAIN events) :
            ReconstructB(Reordered(events, f)).tab_times = tab_times

\* C26 (amended): both variants visit the switch events in ascending order
\* of timestamp, and the totals of the unanchored variant are the same for
\* every permutation of the event list that keeps the switch events with
\* equal timestamps in their order.
C26_OrderUpToTies ==
    /\ (Verified \/ Calculated) => ScannedAscending
    /\ Calculated =>
           \A f \in Permutations(DOMAIN events) :
               KeepsTies(f) => ReconstructB(Reordered(events, f)).tab_times = tab_times

\* A file that is not in timestamp order, with two switches to different
\* activities at one timestamp followed by a later event.
C26_Witness ==
    /\ Calculated
    /\ Len(events) = 3
    /\ SortKey(events[1]) > SortKey(events[2])
    /\ Tied(2, 3)
    /\ events[2].to = "chat"
    /\ events[3].to = "video"
    /\ Total(tab_times, "video") > 0
    /\ \E f \in Permutations(DOMAIN events) :
           /\ KeepsTies(f)
           /\ f # [i \in DOMAIN events |-> i]
           /\ Reordered(events, f) = SortByTimestamp(events)

\* ------------------------------------------------ negative extrapolation
\* sessionDuration is smaller than the event span.
ShortSession == firebase_duration(duration) < anchor.last - anchor.first

\* The first switch event the scan does not skip, 0 if there is none.
EarliestSwitch ==
    IF \E i \in DOMAIN scanned : Valid(scanned[i])
    THEN CHOOSE i \in DOMAIN scanned :
             Valid(scanned[i]) /\ \A j \in 1..(i - 1) : ~Valid(scanned[j])
    ELSE 0

\* C27: when sessionDuration is smaller than the event span, sessionStart
\* is lastEventTs - sessionDuration, unclamped and after firstEventTs; if
\* the earliest switch event lies before sessionStart, its step emits no
\* segment and moves segmentStart back to its timestamp, the first segment
\* starts there, and the segment durations add up to sessionEnd minus that
\* timestamp, more than sessionDuration.
C27_NegativeExtrapolation ==
    (Verified /\ ShortSession) =>
        /\ anchor.session_start = anchor.last - firebase_duration(duration)
        /\ anchor.session_start > anchor.first
        /\ anchor.session_end = anchor.session_start + firebase_duration(duration)
        /\ LET i == EarliestSwitch
           IN  (i # 0 /\ Ts(scanned[i]) < anchor.session_start) =>
                   /\ EmittedAt(i) = <<>>
                   /\ scan[i + 1].segment_start = Ts(scanned[i])
                   /\ segments # <<>>
                   /\ segments[1].start = Ts(scanned[i])
                   /\ SumDurations(segments) = anchor.session_end - Ts(scanned[i])
                   /\ SumDurations(segments) > firebase_duration(duration)

\* A recorded duration of 1 for events that span 3, the first of them a
\* switch, with another switch before sessionStart.
C27_Witness ==
    /\ Verified
    /\ firebase_duration(duration) = 1
    /\ anchor.last - anchor.first = 3
    /\ Len(scanned) >= 2
    /\ EarliestSwitch = 1
    /\ Ts(scanned[1]) = anchor.first
    /\ Ts(scanned[2]) < anchor.session_start
    /\ Len(segments) >= 2
    /\ SumDurations(segments) = 3

\* ------------------------------------------------ the end of the window
\* Scan positions of the switch events at the latest timestamp.
LatestSwitches == {i \in DOMAIN scanned : Valid(scanned[i]) /\ Ts(scanned[i]) = anchor.last}

\* The label of scan position i is the default activity or the `to` of a
\* switch event visited before i with an earlier timestamp.
ActiveBefore(i) ==
    \/ scanned[i].to = "reading"
    \/ \E j \in 1..(i - 1) :
           /\ Valid(scanned[j])
           /\ Ts(scanned[j]) < anchor.last
           /\ scanned[j].to = scanned[i].to

Coerced == {None} \cup {Float(n) : n \in Numerals}

\* The raw numeric cells of the participant: the timestamps and the
\* duration.
NumericCells == {events[i].timestamp : i \in DOMAIN events} \cup {duration}

\* C29: safe_float returns None for the None object, the empty string, the
\* string 'None' and text that spells no number, and a number otherwise,
\* never passing on what float raises; in both variants the step of a
\* switch event whose timestamp is absent leaves the segment list,
\* currentTab and segmentStart as they were.
C29_SafeCoercion ==
    /\ \A c \in NumericCells :
           /\ safe_float(c) \in Coerced
           /\ c \in NoNumber => safe_float(c) = None
           /\ c \notin NoNumber => safe_float(c) = Float(NumeralOf[c])
    /\ (Verified \/ Calculated) =>
           \A i \in DOMAIN scanned :
               scanned[i].timestamp \in NoNumber => scan[i + 1] = scan[i]

\* The scan meets a switch to chat with an unparseable timestamp and one
\* in an unfilled cell, then a switch with a number, and the participant's
\* duration is the text 'None'.
C29_Witness ==
    /\ Verified
    /\ duration = "None"
    /\ Len(scanned) = 3
    /\ {scanned[1].timestamp, scanned[2].timestamp} = {"abc", PyNone}
    /\ scanned[1].to = "chat"
    /\ scan[3] = scan[1]
    /\ scan[3].current_tab = "reading"
    /\ Valid(scanned[3])
    /\ scan[4].segment_start = Ts(scanned[3])

\* ------------------------------------------------------ events are read-only
\* The lists a and b hold the same rows, in some order.
SameRows(a, b) ==
    /\ Len(a) = Len(b)
    /\ \E f \in Permutations(DOMAIN b) : a = Reordered(b, f)

\* C30: no step of the run changes the loaded tables, and the event list a
\* step works on is the list of one participant with every row as loaded,
\* only the order of the rows may differ.
C30_ReadOnly ==
    [][/\ events_by_pid' = events_by_pid
       /\ reading_summary' = reading_summary
       /\ merged_all' = merged_all
       /\ events' # events => \E p \in Pids : SameRows(events', events_by_pid[p])]_vars

\* The loop has reconstructed a participant whose file was not in
\* timestamp order: the list it worked on is the sorted one, the loaded
\* one is as it was.
C30_Witness ==
    \E p \in Pids :
        /\ results[p].done
        /\ events = SortByTimestamp(events_by_pid[p])
        /\ events # events_by_pid[p]
        /\ segments = results[p].segments
        /\ segments # <<>>

====
